---- MODULE Spec2Model ----
(***************************************************************************)
(* Model of the invoice renderer generateInvoicePDF (pdfkit + fs).         *)
(*                                                                         *)
(* Lengths are in hundredths of a PDF point, so that the A4 page height    *)
(* 841.89 is the integer 84189.  Amounts of money are in hundredths of a   *)
(* rupee.  A JavaScript value is a record tagged by its type.              *)
(***************************************************************************)
EXTENDS Integers, Sequences, FiniteSets, TLC

(***************************************************************************)
(* Bounds of the model.                                                    *)
(***************************************************************************)
NumCalls == 2
MaxTime == 1
MaxItems == 2
MaxRows == 40

Calls == 1..NumCalls

\* Authentication routes: connections served at once, users, reset tokens
\* issued, and the clock in steps of half an hour.
NumConnections == 2
MaxUsers == 1
MaxTokens == 2
MaxHalfHours == 3

Connections == 1..NumConnections

(***************************************************************************)
(* Page geometry (part_000 lines 62-66, 163-167, 239).                     *)
(***************************************************************************)
pageWidth == 59528
pageHeight == 84189
margin == 4000
billToBoxHeight == 10000
headerRowHeight == 3200
minRowHeight == 2400
rowPadding == 1200
reservedSpace == 25000

contentWidth == pageWidth - (margin * 2)
invoiceTitleY == margin + 3000
invoiceInfoY == invoiceTitleY + 3500
billToBoxY == invoiceInfoY + 9000
tableStartY == (billToBoxY + billToBoxHeight + 2000) + 1000
firstRowY == tableStartY + headerRowHeight + 1200

(***************************************************************************)
(* Columns of the item table (lines 251-262).                              *)
(***************************************************************************)
colGap == 800
colItemWidth == 18000
colSizeWidth == 4200
colColorWidth == 5200
colQtyWidth == 3200
colPriceWidth == 7000
colTotalWidth == 8000

colItem == margin + 1000
colSize == colItem + colItemWidth + colGap
colColor == colSize + colSizeWidth + colGap
colQty == colColor + colColorWidth + colGap
colPrice == colQty + colQtyWidth + colGap

\* The position the comment of line 264 reports as miscalculated: 490.
colTotalMiscalculated == 49000

colTotal == colPrice + colPriceWidth + colGap

\* The cells of the header row, in the order they are drawn (271-276).
Columns ==
  <<[name |-> "Item", x |-> colItem, width |-> colItemWidth],
    [name |-> "Size", x |-> colSize, width |-> colSizeWidth],
    [name |-> "Color", x |-> colColor, width |-> colColorWidth],
    [name |-> "Qty", x |-> colQty, width |-> colQtyWidth],
    [name |-> "Price", x |-> colPrice, width |-> colPriceWidth],
    [name |-> "Total", x |-> colTotal, width |-> colTotalWidth]>>

(***************************************************************************)
(* JavaScript values.                                                      *)
(***************************************************************************)
Undefined == [t |-> "undefined"]
Null == [t |-> "null"]
NaN == [t |-> "NaN"]
Num(n) == [t |-> "number", v |-> n]
Str(s) == [t |-> "string", s |-> s]

\* The operand test of `a || b`: undefined, null, NaN, 0 and "" are falsy.
Truthy(x) ==
  CASE x.t = "undefined" -> FALSE
    [] x.t = "null" -> FALSE
    [] x.t = "NaN" -> FALSE
    [] x.t = "number" -> x.v # 0
    [] x.t = "string" -> x.s # <<>>
    [] OTHER -> TRUE

Or(a, b) == IF Truthy(a) THEN a ELSE b

Digits == <<"0", "1", "2", "3", "4", "5", "6", "7", "8", "9">>
IsDigit(c) == \E d \in 1..10 : Digits[d] = c
DigitVal(c) == (CHOOSE d \in 1..10 : Digits[d] = c) - 1

\* The index after the longest run of characters satisfying a test from i.
RECURSIVE SkipSpaces(_, _)
SkipSpaces(s, i) ==
  IF i <= Len(s) /\ s[i] = " " THEN SkipSpaces(s, i + 1) ELSE i

RECURSIVE SkipDigits(_, _)
SkipDigits(s, i) ==
  IF i <= Len(s) /\ IsDigit(s[i]) THEN SkipDigits(s, i + 1) ELSE i

\* The number written by the digits s[i..j-1] (0 for no digit).
RECURSIVE DigitsValue(_, _, _)
DigitsValue(s, i, j) ==
  IF j <= i THEN 0 ELSE DigitsValue(s, i, j - 1) * 10 + DigitVal(s[j - 1])

\* The first two fraction digits s[i..j-1], in hundredths.
FractionValue(s, i, j) ==
  (IF i < j THEN DigitVal(s[i]) * 10 ELSE 0)
  + (IF i + 1 < j THEN DigitVal(s[i + 1]) ELSE 0)

\* parseFloat of a string: leading blanks, an optional sign, the longest
\* prefix  digits [ "." digits ]  or  "." digits ; NaN when there is none.
\* Strings of the model carry at most two fraction digits.
ParseFloatString(s) ==
  LET a == SkipSpaces(s, 1)
      neg == a <= Len(s) /\ s[a] = "-"
      b == IF a <= Len(s) /\ s[a] \in {"-", "+"} THEN a + 1 ELSE a
      c == SkipDigits(s, b)
      dot == c <= Len(s) /\ s[c] = "."
      d == IF dot THEN SkipDigits(s, c + 1) ELSE c
      hasInt == c > b
      hasFrac == dot /\ d > c + 1
      mag == DigitsValue(s, b, c) * 100
             + (IF hasFrac THEN FractionValue(s, c + 1, d) ELSE 0)
  IN IF ~hasInt /\ ~hasFrac THEN NaN
     ELSE Num(IF neg THEN 0 - mag ELSE mag)

\* parseFloat(x): x is converted to a string and that string is parsed.
ParseFloat(x) ==
  CASE x.t = "number" -> x
    [] x.t = "string" -> ParseFloatString(x.s)
    [] OTHER -> NaN

\* price * quantity ; the quantity is a whole number.
Times(a, b) ==
  IF a.t = "number" /\ b.t = "number" THEN Num((a.v * b.v) \div 100) ELSE NaN

\* The decimal digits of a natural number.
RECURSIVE NatToString(_)
NatToString(n) ==
  IF n < 10 THEN <<Digits[n + 1]>>
  ELSE NatToString(n \div 10) \o <<Digits[(n % 10) + 1]>>

\* x.toFixed(2)
ToFixed2(x) ==
  IF x.t # "number" THEN <<"N", "a", "N">>
  ELSE LET m == IF x.v < 0 THEN 0 - x.v ELSE x.v
       IN (IF x.v < 0 THEN <<"-">> ELSE <<>>)
          \o NatToString(m \div 100)
          \o <<".", Digits[((m \div 10) % 10) + 1], Digits[(m % 10) + 1]>>

\* `Rs. ${x.toFixed(2)}`
RsText(x) == <<"R", "s", ".", " ">> \o ToFixed2(x)

\* parseFloat(v || 0)
Money(v) == ParseFloat(Or(v, Num(0)))

GreaterThanZero(x) == x.t = "number" /\ x.v > 0

Max(a, b) == IF a >= b THEN a ELSE b

(***************************************************************************)
(* Dates.  A Date object carries its time value in milliseconds, or is an  *)
(* Invalid Date.  A date string of the model is either an ISO date of      *)
(* January 1970, "1970-01-DD", or a text Date.parse does not accept.       *)
(***************************************************************************)
DateObj(ms) == [t |-> "date", valid |-> TRUE, ms |-> ms]
InvalidDate == [t |-> "date", valid |-> FALSE, ms |-> 0]

DayOf(ms) == ms \div 86400000

\* Date.parse
DateParse(s) ==
  IF /\ Len(s) = 10
     /\ SubSeq(s, 1, 8) = <<"1", "9", "7", "0", "-", "0", "1", "-">>
     /\ IsDigit(s[9]) /\ IsDigit(s[10])
     /\ DigitsValue(s, 9, 11) \in 1..31
  THEN DateObj((DigitsValue(s, 9, 11) - 1) * 86400000)
  ELSE InvalidDate

\* new Date(value)
NewDate(x) ==
  CASE x.t = "date" -> x
    [] x.t = "string" -> DateParse(x.s)
    [] x.t = "number" -> DateObj(x.v)
    [] OTHER -> InvalidDate

\* d.toLocaleDateString('en-IN', {year, month: 'long', day}); an Invalid
\* Date formats as the text "Invalid Date" and does not throw.
ToLocaleDateString(d) ==
  IF d.valid THEN NatToString(DayOf(d.ms) + 1) \o <<" ", "January", " ", "1970">>
  ELSE <<"Invalid Date">>

\* The text of the date block.
InvoiceDate(o, clock) ==
  LET dateValue == Or(Or(Or(o.createdAt, o.orderDate), o.date), DateObj(clock))
  IN ToLocaleDateString(NewDate(dateValue))

\* `invoice-${order.orderId}-${Date.now()}.pdf`
Filename(o, clock) == <<o.orderId, clock>>
NoFile == <<"", 0>>

\* `/uploads/invoices/${filename}`
Reference(f) == <<"/uploads/invoices/", f>>
NoReference == <<"", NoFile>>

(***************************************************************************)
(* The document under construction.                                        *)
(***************************************************************************)
NoRow == [y |-> 0, height |-> 0, page |-> 0, price |-> <<>>, total |-> <<>>]

NoDoc ==
  [pages |-> 0, sections |-> {}, logo |-> 0, dateText |-> <<>>,
   headerOnPage |-> FALSE, rowsOnPage |-> 0, row |-> NoRow,
   totals |-> <<>>, brandY |-> 0, ended |-> FALSE, columns |-> <<>>,
   logoSeen |-> {}, imageThrew |-> FALSE,
   billing |-> <<>>, billingEndY |-> 0, headerY |-> 0]

\* new PDFDocument(...): one empty page.
NewDoc == [NoDoc EXCEPT !.pages = 1]

\* The last candidate path that exists, instead of the first.
LogoPathLast(exists) ==
  IF exists = {} THEN 0 ELSE CHOOSE i \in exists : \A j \in exists : i >= j

\* The first candidate path that exists (0: none), lines 69-81.
LogoPath(exists) ==
  IF exists = {} THEN 0 ELSE CHOOSE i \in exists : \A j \in exists : i <= j

\* Lines 84-160: brand image, title, invoice number, date block.  exists:
\* the candidates fs.existsSync reports; imageThrows: doc.image throws, which
\* lines 93-101 catch and log.
DrawHeader(d, o, clock, exists, imageThrows) ==
  [d EXCEPT !.logo = IF imageThrows THEN 0 ELSE LogoPath(exists),
            !.logoSeen = exists,
            !.imageThrew = imageThrows /\ LogoPath(exists) # 0,
            !.sections = @ \cup {"header"},
            !.dateText = InvoiceDate(o, clock)]

\* Lines 166-183: the box of the billing block and its caption.
DrawBillToBox(d) == [d EXCEPT !.sections = @ \cup {"billTo"}]

\* x.f of an object, x?.f of anything else.
Field(x, f) == IF x.t = "object" THEN x[f] ELSE Undefined

\* [a, b, c].filter(Boolean).join(', ') of strings
RECURSIVE JoinTruthy(_)
JoinTruthy(parts) ==
  IF parts = <<>> THEN <<>>
  ELSE LET rest == JoinTruthy(Tail(parts))
       IN IF Head(parts).s = <<>> THEN rest
          ELSE IF rest = <<>> THEN Head(parts).s
          ELSE Head(parts).s \o <<",", " ">> \o rest

\* Lines 185-224: the lines of the billing block, each drawn at the cursor,
\* which then advances; billingEndY is the cursor after the last of them.
DrawBilling(d, o, u) ==
  LET a == o.shippingAddress
      customerName == Or(Or(u.name, Field(a, "name")), Str(<<"Customer">>))
      customerMobile == Or(Or(u.mobile, Field(a, "mobile")), Str(<<>>))
      customerEmail == Or(Or(u.email, Field(a, "email")), Str(<<>>))
      cityStateZip ==
        JoinTruthy(<<Or(Field(a, "city"), Str(<<>>)),
                     Or(Field(a, "state"), Str(<<>>)),
                     Or(Or(Field(a, "zipCode"), Field(a, "zip")), Str(<<>>))>>)
      y0 == billToBoxY + 2500
      l0 == <<[text |-> customerName.s, y |-> y0]>>
      y1 == y0 + 1800
      hasAddress == Truthy(a) /\ Truthy(Field(a, "address"))
      l1 == IF hasAddress
            THEN <<[text |-> Field(a, "address").s, y |-> y1]>> ELSE <<>>
      y2 == IF hasAddress THEN y1 + 1500 ELSE y1
      hasCity == Truthy(a) /\ cityStateZip # <<>>
      l2 == IF hasCity THEN <<[text |-> cityStateZip, y |-> y2]>> ELSE <<>>
      y3 == IF hasCity THEN y2 + 1500 ELSE y2
      l3 == IF Truthy(customerMobile)
            THEN <<[text |-> <<"Mobile: ">> \o customerMobile.s, y |-> y3]>>
            ELSE <<>>
      y4 == IF Truthy(customerMobile) THEN y3 + 1500 ELSE y3
      l4 == IF Truthy(customerEmail)
            THEN <<[text |-> <<"Email: ">> \o customerEmail.s, y |-> y4]>>
            ELSE <<>>
      y5 == IF Truthy(customerEmail) THEN y4 + 1500 ELSE y4
  IN [d EXCEPT !.billing = l0 \o l1 \o l2 \o l3 \o l4, !.billingEndY = y5]

\* The cursor continuing below the last billing line.
BelowBillingLines(cursor) == cursor + 2000

\* Line 226: the cursor after the billing block, whatever it was before.
BelowBillingBox(cursor) == billToBoxY + billToBoxHeight + 2000

\* Lines 229-238: tableStartY, doc.y and headerY.
HeaderY(cursor) == BelowBillingBox(cursor) + 1000

\* The header row of the table (lines 244-276, and 298-308 on a new page).
DrawTableHeader(d) ==
  [d EXCEPT !.sections = @ \cup {"tableHeader"}, !.headerOnPage = TRUE,
            !.columns = Columns]

\* Line 294: the test for a new page.
NeedsNewPage(y) == y > pageHeight - reservedSpace

\* doc.addPage() without the header row.
NewPageWithoutHeader(d) ==
  [d EXCEPT !.pages = @ + 1, !.headerOnPage = FALSE, !.rowsOnPage = 0]

\* Lines 295-309: doc.addPage() and the header row redrawn.
NewPage(d) ==
  DrawTableHeader([d EXCEPT !.pages = @ + 1, !.headerOnPage = FALSE,
                            !.rowsOnPage = 0])

\* Line 296 and 309: the cursor of the first row of a new page.
NewPageRowY == (margin + 2000) + headerRowHeight + 1200

\* Lines 313-314.
RowHeight(item) == Max(minRowHeight, item.nameHeight + rowPadding)

\* Lines 286-333: one row drawn at cursor y.
DrawRow(d, item, y) ==
  LET price == Money(item.price)
      quantity == Or(item.quantity, Num(100))
      total == Times(price, quantity)
  IN [d EXCEPT !.rowsOnPage = @ + 1,
               !.row = [y |-> y, height |-> RowHeight(item), page |-> d.pages,
                        price |-> RsText(price), total |-> RsText(total)]]

\* The totals block with the place of an omitted line left empty.
TotalsLinesWithGaps(o, y) ==
  LET shippingCost == Money(o.shippingCost)
      tax == Money(o.tax)
  IN <<[label |-> "Subtotal:", value |-> RsText(Money(o.subtotal)), y |-> y]>>
     \o (IF GreaterThanZero(shippingCost)
         THEN <<[label |-> "Shipping:", value |-> RsText(shippingCost),
                 y |-> y + 2000]>>
         ELSE <<>>)
     \o (IF GreaterThanZero(tax)
         THEN <<[label |-> "Tax (GST):", value |-> RsText(tax), y |-> y + 4000]>>
         ELSE <<>>)
     \o <<[label |-> "Total:", value |-> RsText(Money(o.total)), y |-> y + 6800]>>

\* Lines 340-396: the lines of the totals block, from cursor y.
TotalsLines(o, y) ==
  LET subtotal == Money(o.subtotal)
      shippingCost == Money(o.shippingCost)
      tax == Money(o.tax)
      grandTotal == Money(o.total)
      y1 == y + 2000
      l1 == <<[label |-> "Subtotal:", value |-> RsText(subtotal), y |-> y]>>
      l2 == IF GreaterThanZero(shippingCost)
            THEN <<[label |-> "Shipping:", value |-> RsText(shippingCost), y |-> y1]>>
            ELSE <<>>
      y2 == IF GreaterThanZero(shippingCost) THEN y1 + 2000 ELSE y1
      l3 == IF GreaterThanZero(tax)
            THEN <<[label |-> "Tax (GST):", value |-> RsText(tax), y |-> y2]>>
            ELSE <<>>
      y3 == IF GreaterThanZero(tax) THEN y2 + 2000 ELSE y2
      l4 == <<[label |-> "Total:", value |-> RsText(grandTotal), y |-> y3 + 800]>>
  IN l1 \o l2 \o l3 \o l4

\* Line 423: the height of one line of 15-point Times-Italic, 16.5 points.
brandTextHeight == 1650

\* Lines 338-431: totals, footer and doc.end().
DrawTotalsAndFooter(d, o, y) ==
  LET lines == TotalsLines(o, y + 2000)
      totalsY == lines[Len(lines)].y
      footerY == (totalsY + 3000) + 2000
      footerTextY == footerY + 3000
  IN [d EXCEPT !.sections = @ \cup {"totals", "footer"},
               !.totals = lines,
               !.brandY = footerTextY + 2500,
               !.ended = TRUE]

(***************************************************************************)
(* State.                                                                  *)
(***************************************************************************)
VARIABLES
  now,        \* Date.now(), in milliseconds
  dirExists,  \* the directory uploads/invoices exists
  files,      \* the names of the files in that directory
  running,    \* the call whose synchronous part is executing, or 0
  pc,         \* per call: "idle", "rows" (inside forEach), "returned"
  promise,    \* per call: "none", "pending", "resolved", "rejected"
  result,     \* per call: the value the promise resolved with
  failure,    \* per call: the error the promise rejected with
  order,      \* per call: the order argument
  user,       \* per call: the user argument
  filename,   \* per call: the file name chosen at line 48
  stream,     \* per call: "none", "created", "open", "finished", "errored"
  handlers,   \* per call: the 'finish' and 'error' listeners are attached
  doc,        \* per call: the PDF document
  idx,        \* per call: the index of the next item of forEach
  itemsY      \* per call: the cursor of the item table

\* The authentication routes (src/backend/routes/authRoutes.js).
VARIABLES
  accounts,   \* the rows of the users table, in order of creation
  requests,   \* per connection: the request being served and its response
  nextToken   \* the number of reset tokens crypto.randomBytes has produced

invoiceVars ==
  <<dirExists, files, running, pc, promise, result, failure, order, user,
    filename, stream, handlers, doc, idx, itemsY>>

authVars == <<accounts, requests, nextToken>>

vars ==
  <<now, dirExists, files, running, pc, promise, result, failure, order, user,
    filename, stream, handlers, doc, idx, itemsY, accounts, requests,
    nextToken>>

NoOrder ==
  [orderId |-> "", createdAt |-> Undefined, orderDate |-> Undefined,
   date |-> Undefined, items |-> "undefined", nItems |-> 0,
   subtotal |-> Undefined, shippingCost |-> Undefined, tax |-> Undefined,
   total |-> Undefined, shippingAddress |-> Undefined]

UserWith(name, mobile, email) ==
  [t |-> "object", name |-> name, mobile |-> mobile, email |-> email]

AddressWith(name, address, city, state, zipCode, zip, mobile, email) ==
  [t |-> "object", name |-> name, address |-> address, city |-> city,
   state |-> state, zipCode |-> zipCode, zip |-> zip, mobile |-> mobile,
   email |-> email]

UserObject ==
  UserWith(Str(<<"U">>), Str(<<"9", "8">>), Str(<<"u", "@", "x">>))

NoRequest ==
  [route |-> "none", at |-> "idle", token |-> Undefined,
   newPassword |-> Undefined, user |-> 0, status |-> 0, message |-> ""]

Init ==
  /\ now = 0
  /\ dirExists \in BOOLEAN
  /\ files = {}
  /\ running = 0
  /\ pc = [p \in Calls |-> "idle"]
  /\ promise = [p \in Calls |-> "none"]
  /\ result = [p \in Calls |-> NoReference]
  /\ failure = [p \in Calls |-> "none"]
  /\ order = [p \in Calls |-> NoOrder]
  /\ user = [p \in Calls |-> Undefined]
  /\ filename = [p \in Calls |-> NoFile]
  /\ stream = [p \in Calls |-> "none"]
  /\ handlers = [p \in Calls |-> FALSE]
  /\ doc = [p \in Calls |-> NoDoc]
  /\ idx = [p \in Calls |-> 0]
  /\ itemsY = [p \in Calls |-> 0]
  /\ accounts = <<>>
  /\ requests = [r \in Connections |-> NoRequest]
  /\ nextToken = 0

\* Line 233.
ItemsInvalid(o) == o.items # "array" \/ o.nItems = 0

\* catch (error) { reject(error) }, lines 440-442: the executor returns.
Rejected(p, d, why) ==
  /\ doc' = [doc EXCEPT ![p] = d]
  /\ promise' = [promise EXCEPT ![p] = "rejected"]
  /\ failure' = [failure EXCEPT ![p] = why]
  /\ pc' = [pc EXCEPT ![p] = "returned"]
  /\ running' = 0

(***************************************************************************)
(* generateInvoicePDF(o, u) is called: lines 38-283, up to the first       *)
(* iteration of forEach.  exists: the candidate logo paths that exist;     *)
(* imageThrows: doc.image throws.                                          *)
(***************************************************************************)
Begin(p, o, u, exists, imageThrows) ==
  /\ pc[p] = "idle"
  /\ running = 0
  /\ dirExists' = TRUE
  /\ order' = [order EXCEPT ![p] = o]
  /\ user' = [user EXCEPT ![p] = u]
  /\ filename' = [filename EXCEPT ![p] = Filename(o, now)]
  /\ stream' = [stream EXCEPT ![p] = "created"]
  /\ LET d1 == DrawBillToBox(DrawHeader(NewDoc, o, now, exists, imageThrows))
     IN IF u.t # "object"
        THEN /\ Rejected(p, d1, "TypeError")
             /\ UNCHANGED <<idx, itemsY>>
        ELSE IF ItemsInvalid(o)
        THEN /\ Rejected(p, DrawBilling(d1, o, u),
                         "Order items are missing or invalid")
             /\ UNCHANGED <<idx, itemsY>>
        ELSE LET d2 == DrawBilling(d1, o, u)
                 headerY == HeaderY(d2.billingEndY)
             IN
             /\ doc' = [doc EXCEPT
                          ![p] = [DrawTableHeader(d2) EXCEPT !.headerY = headerY]]
             /\ itemsY' = [itemsY EXCEPT
                             ![p] = headerY + headerRowHeight + 1200]
             /\ idx' = [idx EXCEPT ![p] = 0]
             /\ pc' = [pc EXCEPT ![p] = "rows"]
             /\ running' = p
             /\ promise' = [promise EXCEPT ![p] = "pending"]
             /\ UNCHANGED failure
  /\ UNCHANGED authVars
  /\ UNCHANGED <<now, files, result, handlers>>

(***************************************************************************)
(* One iteration of order.items.forEach, lines 285-336.                    *)
(***************************************************************************)
ItemRow(p, item) ==
  /\ pc[p] = "rows"
  /\ idx[p] < order[p].nItems
  /\ IF item.t # "object"
     THEN /\ Rejected(p, doc[p], "TypeError")
          /\ UNCHANGED <<idx, itemsY>>
     ELSE LET break == NeedsNewPage(itemsY[p])
              d1 == IF break THEN NewPage(doc[p]) ELSE doc[p]
              y == IF break THEN NewPageRowY ELSE itemsY[p]
          IN /\ doc' = [doc EXCEPT ![p] = DrawRow(d1, item, y)]
             /\ itemsY' = [itemsY EXCEPT ![p] = y + RowHeight(item)]
             /\ idx' = [idx EXCEPT ![p] = @ + 1]
             /\ UNCHANGED <<pc, promise, failure, running>>
  /\ UNCHANGED authVars
  /\ UNCHANGED <<now, dirExists, files, result, order, user, filename, stream,
                 handlers>>

(***************************************************************************)
(* After the last item: totals, footer, doc.end(), and the listeners of    *)
(* the stream, lines 338-439.  The executor returns.                       *)
(***************************************************************************)
Finish(p) ==
  /\ pc[p] = "rows"
  /\ idx[p] = order[p].nItems
  /\ doc' = [doc EXCEPT ![p] = DrawTotalsAndFooter(@, order[p], itemsY[p])]
  /\ handlers' = [handlers EXCEPT ![p] = TRUE]
  /\ pc' = [pc EXCEPT ![p] = "returned"]
  /\ running' = 0
  /\ UNCHANGED authVars
  /\ UNCHANGED <<now, dirExists, files, promise, result, failure, order, user,
                 filename, stream, idx, itemsY>>

(***************************************************************************)
(* The write stream of line 59, driven by the event loop: its events are   *)
(* delivered only while no synchronous code is running.                    *)
(***************************************************************************)
\* fs.createWriteStream(filepath): default flags 'w', create or truncate.
OpenFile(fs, f) == fs \cup {f}

StreamOpen(p) ==
  /\ running = 0
  /\ stream[p] = "created"
  /\ stream' = [stream EXCEPT ![p] = "open"]
  /\ files' = OpenFile(files, filename[p])
  /\ UNCHANGED authVars
  /\ UNCHANGED <<now, dirExists, running, pc, promise, result, failure, order,
                 user, filename, handlers, doc, idx, itemsY>>

\* resolve(value): settles a pending promise, has no effect otherwise.
Resolve(pr, p) == IF pr[p] = "pending" THEN [pr EXCEPT ![p] = "resolved"] ELSE pr
Reject(pr, p) == IF pr[p] = "pending" THEN [pr EXCEPT ![p] = "rejected"] ELSE pr

\* A 'finish' handler that does not settle the promise.
OnFinishIgnored(pr, p) == pr

\* stream.on('finish', ...), lines 433-435.
OnFinish(pr, p) == Resolve(pr, p)

\* The error handler resolving instead of rejecting.
OnErrorResolves(pr, p) == Resolve(pr, p)

\* stream.on('error', ...), lines 437-439.
OnError(pr, p) == Reject(pr, p)

\* 'finish': every chunk is written after doc.end().
StreamFinish(p) ==
  /\ running = 0
  /\ stream[p] = "open"
  /\ doc[p].ended
  /\ stream' = [stream EXCEPT ![p] = "finished"]
  /\ IF handlers[p]
     THEN /\ promise' = OnFinish(promise, p)
          /\ result' = IF promise[p] = "pending"
                       THEN [result EXCEPT ![p] = Reference(filename[p])]
                       ELSE result
     ELSE UNCHANGED <<promise, result>>
  /\ UNCHANGED authVars
  /\ UNCHANGED <<now, dirExists, files, running, pc, failure, order, user,
                 filename, handlers, doc, idx, itemsY>>

\* 'error': the open or a write failed.
StreamError(p) ==
  /\ running = 0
  /\ stream[p] \in {"created", "open"}
  /\ stream' = [stream EXCEPT ![p] = "errored"]
  /\ IF handlers[p]
     THEN /\ promise' = OnError(promise, p)
          /\ failure' = IF promise[p] = "pending"
                        THEN [failure EXCEPT ![p] = "StreamError"]
                        ELSE failure
     ELSE UNCHANGED <<promise, failure>>
  /\ UNCHANGED authVars
  /\ UNCHANGED <<now, dirExists, files, running, pc, result, order, user,
                 filename, handlers, doc, idx, itemsY>>

\* The clock advances by a millisecond.
Tick ==
  /\ now < MaxTime
  /\ now' = now + 1
  /\ UNCHANGED authVars
  /\ UNCHANGED <<dirExists, files, running, pc, promise, result, failure, order,
                 user, filename, stream, handlers, doc, idx, itemsY>>

(***************************************************************************)
(* Inputs.                                                                 *)
(***************************************************************************)
OrderWith(id, items, n) ==
  [NoOrder EXCEPT !.orderId = id, !.items = items, !.nItems = n,
                  !.subtotal = Num(5000), !.total = Num(5000)]

ItemWith(price, quantity, nameHeight) ==
  [t |-> "object", price |-> price, quantity |-> quantity,
   nameHeight |-> nameHeight]

\* The height doc.heightOfString measures for a name of one line of
\* Helvetica at size 10 (11.56), of two lines, and of twenty-six lines.
NameHeights == {1156, 2312, 30056}

PlainItem == ItemWith(Num(2500), Num(200), 1156)

(***************************************************************************)
(* Concurrent calls for a valid and for an invalid order, with a user or   *)
(* none, and an item or a hole in order.items.                             *)
(***************************************************************************)
Orders == {OrderWith("A", "array", 1), OrderWith("A", "undefined", 0)}
Users == {UserObject, Null}
Items == {PlainItem, Null}

CallStep ==
  \E p \in Calls :
    \/ \E o \in Orders, u \in Users : Begin(p, o, u, {}, FALSE)
    \/ \E item \in Items : ItemRow(p, item)
    \/ Finish(p)
    \/ StreamOpen(p)
    \/ StreamFinish(p)
    \/ StreamError(p)

Next == Tick \/ CallStep

Spec == Init /\ [][Next]_vars

\* The calls with the clock standing still.  The synchronous part of a call
\* runs to its end, and a stream whose document has ended emits 'finish' or
\* 'error'.
Fairness ==
  \A p \in Calls :
    /\ WF_vars(\E item \in Items : ItemRow(p, item))
    /\ WF_vars(Finish(p))
    /\ WF_vars(doc[p].ended
               /\ (StreamOpen(p) \/ StreamFinish(p) \/ StreamError(p)))

FairSpec == Init /\ [][CallStep]_vars /\ Fairness

(***************************************************************************)
(* One call, every shape of its arguments.                                 *)
(***************************************************************************)
MoneyInputs ==
  {Undefined, Null, Num(0), Num(125050), Str(<<>>),
   Str(<<"1", "2", ".", "5">>), Str(<<"a", "b", "c">>)}

DateInputs ==
  {Undefined, Null, Str(<<>>), DateObj(3 * 86400000),
   Str(<<"1", "9", "7", "0", "-", "0", "1", "-", "0", "5">>),
   Str(<<"n", "o", "t", " ", "a", " ", "d", "a", "t", "e">>)}

ShapeOrders ==
  {OrderWith("A", "array", n) : n \in 0..MaxItems}
  \cup {OrderWith("A", k, 0) : k \in {"undefined", "notArray"}}

DateOrders ==
  {[OrderWith("A", "array", 1) EXCEPT !.createdAt = c, !.orderDate = d,
                                      !.date = d] :
     c \in DateInputs, d \in {Undefined, DateObj(86400000)}}

MoneyOrders ==
  {[OrderWith("A", "array", 1) EXCEPT !.subtotal = a, !.total = a,
                                      !.shippingCost = b, !.tax = c] :
     a \in MoneyInputs, b \in MoneyInputs, c \in MoneyInputs}

RenderOrders == ShapeOrders \cup DateOrders \cup MoneyOrders
RenderUsers == {UserObject, Null, Undefined}
RenderItems ==
  {ItemWith(pr, q, 1156) :
     pr \in MoneyInputs, q \in {Undefined, Num(0), Num(300)}}
  \cup {Null, Undefined}

RenderNext ==
  \/ \E o \in RenderOrders, u \in RenderUsers : Begin(1, o, u, {}, FALSE)
  \/ \E item \in RenderItems : ItemRow(1, item)
  \/ Finish(1)
  \/ StreamOpen(1)
  \/ StreamFinish(1)
  \/ StreamError(1)

RenderSpec == Init /\ [][RenderNext]_vars

(***************************************************************************)
(* One call, a long table: up to MaxRows rows of every measured height.    *)
(***************************************************************************)
LayoutOrders == {OrderWith("A", "array", n) : n \in {1, 11, MaxRows}}
LayoutItems == {ItemWith(Num(2500), Num(200), h) : h \in NameHeights}

LayoutNext ==
  \/ \E o \in LayoutOrders : Begin(1, o, UserObject, {}, FALSE)
  \/ \E item \in LayoutItems : ItemRow(1, item)
  \/ Finish(1)

LayoutSpec == Init /\ [][LayoutNext]_vars

(***************************************************************************)
(* One call, every shape of the customer details and of the logo lookup.   *)
(***************************************************************************)
Maybe(v) == {Undefined, v}

HeaderUsers ==
  {UserWith(n, m, e) : n \in Maybe(Str(<<"U">>)), m \in Maybe(Str(<<"9">>)),
                       e \in Maybe(Str(<<"u", "@">>))} \cup {Null}

HeaderAddresses ==
  {AddressWith(n, a, c, s, zc, z, m, e) :
     n \in Maybe(Str(<<"A">>)), a \in Maybe(Str(<<"1", " ", "S">>)),
     c \in Maybe(Str(<<"C">>)), s \in Maybe(Str(<<"T">>)),
     zc \in Maybe(Str(<<"6">>)), z \in Maybe(Str(<<"7">>)),
     m \in Maybe(Str(<<"8">>)), e \in Maybe(Str(<<"a", "@">>))}
  \cup {Undefined}

HeaderOrders ==
  {[OrderWith("A", items, 1) EXCEPT !.shippingAddress = a] :
     items \in {"array", "missing"}, a \in HeaderAddresses}

LogoPaths == 1..3

HeaderNext ==
  \/ /\ pc[1] = "idle"
     /\ \E o \in HeaderOrders, u \in HeaderUsers :
          \E exists \in SUBSET LogoPaths, imageThrows \in BOOLEAN :
            Begin(1, o, u, exists, imageThrows)
  \/ ItemRow(1, PlainItem)
  \/ Finish(1)

HeaderSpec == Init /\ [][HeaderNext]_vars

(***************************************************************************)
(* The authentication routes: src/backend/routes/authRoutes.js and         *)
(* generateToken.  The User model is used through findOne, create and      *)
(* save; a row holds the values it was saved with.                         *)
(***************************************************************************)
HalfHour == 30 * 60 * 1000

\* String.prototype.trim, for the space character
RECURSIVE TrimEnd(_)
TrimEnd(s) ==
  IF s # <<>> /\ s[Len(s)] = " " THEN TrimEnd(SubSeq(s, 1, Len(s) - 1)) ELSE s

Trim(s) == LET i == SkipSpaces(s, 1) IN TrimEnd(SubSeq(s, i, Len(s)))

\* x?.trim() || ''
TrimOrEmpty(x) == IF x.t = "string" THEN Str(Trim(x.s)) ELSE Str(<<>>)

\* trimmedMobile.length !== 10 || !/^[0-9]+$/.test(trimmedMobile), negated
MobileValid(s) == Len(s) = 10 /\ \A i \in 1..Len(s) : IsDigit(s[i])

\* /^[^\s@]+@[^\s@]+\.[^\s@]+$/.test(s)
EmailValid(s) ==
  /\ \A i \in 1..Len(s) : s[i] # " "
  /\ \E i \in 2..Len(s) :
       /\ s[i] = "@"
       /\ \A k \in 1..Len(s) : s[k] = "@" => k = i
       /\ \E j \in (i + 2)..(Len(s) - 1) : s[j] = "."

\* The condition under which generateToken throws ConfigurationError.
GenerateTokenThrows(jwtSecret) ==
  ~Truthy(jwtSecret) \/ Trim(jwtSecret.s) = <<>>

\* crypto.randomBytes(32).toString('hex'): the k-th value produced
TokenOf(k) == Str(<<"c", Digits[k + 1]>>)

\* crypto.createHash('sha256').update(token).digest('hex')
Hash(token) == Str(<<"sha256">> \o token.s)

\* A reset that is still valid at its expiry time.
UnexpiredOrNow(expires, clock) == expires.t = "date" /\ expires.ms >= clock

\* passwordResetExpires: { [Op.gt]: new Date() }
Unexpired(expires, clock) == expires.t = "date" /\ expires.ms > clock

\* User.findOne({ where: { email } }) and { where: { mobile } }: a row or 0
FindBy(rows, field, value) ==
  IF \E i \in 1..Len(rows) : rows[i][field] = value
  THEN CHOOSE i \in 1..Len(rows) :
         /\ rows[i][field] = value
         /\ \A j \in 1..(i - 1) : rows[j][field] # value
  ELSE 0

\* User.findOne of lines 194-201
FindByResetToken(rows, hashedToken, clock) ==
  LET Match(i) == /\ rows[i].passwordResetToken = hashedToken
                  /\ Unexpired(rows[i].passwordResetExpires, clock)
  IN IF \E i \in 1..Len(rows) : Match(i)
     THEN CHOOSE i \in 1..Len(rows) : Match(i) /\ \A j \in 1..(i - 1) : ~Match(j)
     ELSE 0

\* User.create
NewUser(mobile, password, name, email) ==
  [mobile |-> mobile, password |-> password, name |-> name, email |-> email,
   passwordResetToken |-> Null, passwordResetExpires |-> Null]

Respond(r, route, token, status, message) ==
  requests' = [requests EXCEPT
                 ![r] = [route |-> route, at |-> "responded", token |-> token,
                         newPassword |-> Undefined, user |-> 0,
                         status |-> status, message |-> message]]

\* POST /register, lines 15-78.  jwtSecret: process.env.JWT_SECRET as
\* generateToken reads it.
Register(r, body, jwtSecret) ==
  LET trimmedMobile == TrimOrEmpty(body.mobile)
      trimmedEmail == TrimOrEmpty(body.email)
      Reply(status, message) ==
        Respond(r, "register", Undefined, status, message)
  IN
  /\ requests[r].at = "idle"
  /\ IF ~Truthy(trimmedMobile) \/ ~Truthy(trimmedEmail)
     THEN /\ Reply(400, "Please provide both mobile number and email address")
          /\ UNCHANGED accounts
     ELSE IF ~Truthy(body.password) \/ ~Truthy(body.name)
     THEN /\ Reply(400, "Please provide password and name")
          /\ UNCHANGED accounts
     ELSE IF ~MobileValid(trimmedMobile.s)
     THEN /\ Reply(400, "Please enter a valid 10-digit mobile number")
          /\ UNCHANGED accounts
     ELSE IF ~EmailValid(trimmedEmail.s)
     THEN /\ Reply(400, "Please enter a valid email address")
          /\ UNCHANGED accounts
     ELSE IF Len(body.password.s) < 8
     THEN /\ Reply(400, "Password must be at least 8 characters")
          /\ UNCHANGED accounts
     ELSE IF FindBy(accounts, "mobile", trimmedMobile) # 0
     THEN /\ Reply(400, "Mobile number already registered")
          /\ UNCHANGED accounts
     ELSE IF FindBy(accounts, "email", trimmedEmail) # 0
     THEN /\ Reply(400, "Email address already registered")
          /\ UNCHANGED accounts
     ELSE /\ Len(accounts) < MaxUsers
          /\ accounts' = Append(accounts, NewUser(trimmedMobile, body.password,
                                                   body.name, trimmedEmail))
          /\ IF GenerateTokenThrows(jwtSecret)
             THEN Reply(500, "Server error")
             ELSE Reply(201, "")
  /\ UNCHANGED <<now, nextToken>>
  /\ UNCHANGED invoiceVars

\* POST /forgot-password, lines 125-176.  mailSent: sendPasswordResetEmail
\* returns instead of throwing.
ForgotPassword(r, body, mailSent) ==
  LET trimmedEmail == TrimOrEmpty(body.email)
      u == FindBy(accounts, "email", trimmedEmail)
      resetToken == TokenOf(nextToken + 1)
      Reply(status, message) ==
        Respond(r, "forgot-password", Undefined, status, message)
  IN
  /\ requests[r].at = "idle"
  /\ IF ~Truthy(trimmedEmail)
     THEN /\ Reply(400, "Please provide an email address")
          /\ UNCHANGED <<accounts, nextToken>>
     ELSE IF ~EmailValid(trimmedEmail.s)
     THEN /\ Reply(400, "Please provide a valid email address.")
          /\ UNCHANGED <<accounts, nextToken>>
     ELSE IF u = 0
     THEN /\ Reply(404, "No account found with that email address.")
          /\ UNCHANGED <<accounts, nextToken>>
     ELSE /\ nextToken < MaxTokens
          /\ nextToken' = nextToken + 1
          /\ accounts' =
               [accounts EXCEPT
                  ![u].passwordResetToken = Hash(resetToken),
                  ![u].passwordResetExpires = DateObj(now + 60 * 60 * 1000)]
          /\ IF mailSent
             THEN Reply(200, "Password reset instructions have been sent to your email address")
             ELSE Reply(500, "Server error")
  /\ UNCHANGED now
  /\ UNCHANGED invoiceVars

\* POST /reset-password, lines 181-205: up to the answer of findOne.
ResetPasswordFind(r, body) ==
  LET Reply(status, message) ==
        Respond(r, "reset-password", body.token, status, message)
  IN
  /\ requests[r].at = "idle"
  /\ IF ~Truthy(body.token) \/ ~Truthy(body.newPassword)
     THEN Reply(400, "Token and new password are required")
     ELSE IF Len(body.newPassword.s) < 8
     THEN Reply(400, "Password must be at least 8 characters")
     ELSE LET u == FindByResetToken(accounts, Hash(body.token), now)
          IN IF u = 0
             THEN Reply(400, "Reset token is invalid or has expired")
             ELSE requests' =
                    [requests EXCEPT
                       ![r] = [route |-> "reset-password", at |-> "found",
                               token |-> body.token,
                               newPassword |-> body.newPassword, user |-> u,
                               status |-> 0, message |-> ""]]
  /\ UNCHANGED <<now, accounts, nextToken>>
  /\ UNCHANGED invoiceVars

\* POST /reset-password, lines 207-212: the row findOne returned is changed
\* and saved.
ResetPasswordSave(r) ==
  /\ requests[r].at = "found"
  /\ accounts' =
       [accounts EXCEPT
          ![requests[r].user].password = requests[r].newPassword,
          ![requests[r].user].passwordResetToken = Null,
          ![requests[r].user].passwordResetExpires = Null]
  /\ Respond(r, "reset-password", requests[r].token, 200,
             "Password reset successful")
  /\ UNCHANGED <<now, nextToken>>
  /\ UNCHANGED invoiceVars

\* The response has been sent and the connection serves the next request.
Close(r) ==
  /\ requests[r].at = "responded"
  /\ requests' = [requests EXCEPT ![r] = NoRequest]
  /\ UNCHANGED <<now, accounts, nextToken>>
  /\ UNCHANGED invoiceVars

\* Half an hour passes.
HalfHourPasses ==
  /\ now + HalfHour <= MaxHalfHours * HalfHour
  /\ now' = now + HalfHour
  /\ UNCHANGED authVars
  /\ UNCHANGED invoiceVars

MobileA == Str(<<"9", "0", "0", "0", "0", "0", "0", "0", "0", "1">>)
MobileB == Str(<<"9", "0", "0", "0", "0", "0", "0", "0", "0", "2">>)
EmailA == Str(<<"a", "@", "x", ".", "i">>)
EmailB == Str(<<"b", "@", "x", ".", "i">>)
GoodPassword == Str(<<"p", "a", "s", "s", "w", "o", "r", "d">>)
ShortPassword == Str(<<"p", "a", "s", "s", "w", "o", "r">>)
NewPassword == Str(<<"n", "e", "w", "p", "a", "s", "s", "1">>)
OtherPassword == Str(<<"n", "e", "w", "p", "a", "s", "s", "2">>)

RegisterBody(mobile, password, name, email) ==
  [mobile |-> mobile, password |-> password, name |-> name, email |-> email]

RegisterBodies ==
  {RegisterBody(m, GoodPassword, Str(<<"A">>), e) :
     m \in {MobileA, MobileB, Str(<<" ">> \o MobileA.s), Str(<<"1", "2">>),
            Undefined},
     e \in {EmailA, EmailB, Str(EmailA.s \o <<" ">>), Str(<<"a", "@", "x">>),
            Undefined}}
  \cup {RegisterBody(MobileA, ShortPassword, Str(<<"A">>), EmailA),
        RegisterBody(MobileA, GoodPassword, Undefined, EmailA),
        RegisterBody(MobileA, Undefined, Str(<<"A">>), EmailA)}

JwtSecrets == {Undefined, Str(<<" ">>), Str(<<"k">>)}

ForgotBodies ==
  {[email |-> e] : e \in {EmailA, EmailB, Str(<<"a", "@", "x">>), Undefined}}

ResetBodies ==
  {[token |-> t, newPassword |-> w] :
     t \in {TokenOf(k) : k \in 1..MaxTokens} \cup {Undefined},
     w \in {NewPassword, OtherPassword, ShortPassword, Undefined}}

AuthNext ==
  \/ \E r \in Connections, body \in RegisterBodies, jwtSecret \in JwtSecrets :
       Register(r, body, jwtSecret)
  \/ \E r \in Connections, body \in ForgotBodies, mailSent \in BOOLEAN :
       ForgotPassword(r, body, mailSent)
  \/ \E r \in Connections, body \in ResetBodies : ResetPasswordFind(r, body)
  \/ \E r \in Connections : ResetPasswordSave(r)
  \/ \E r \in Connections : Close(r)
  \/ HalfHourPasses

AuthSpec == Init /\ [][AuthNext]_vars

(***************************************************************************)
(* One account, its reset tokens and the clock: registration succeeds,     *)
(* the mail is sent, and reset requests carry issued and unissued tokens.  *)
(***************************************************************************)
UnissuedToken == Str(<<"f", "f">>)

ResetOnlyBodies ==
  {[token |-> t, newPassword |-> w] :
     t \in {TokenOf(k) : k \in 1..MaxTokens} \cup {UnissuedToken},
     w \in {NewPassword, ShortPassword}}

ResetNext ==
  \/ \E r \in Connections :
       Register(r, RegisterBody(MobileA, GoodPassword, Str(<<"A">>), EmailA),
                Str(<<"k">>))
  \/ \E r \in Connections : ForgotPassword(r, [email |-> EmailA], TRUE)
  \/ \E r \in Connections, body \in ResetOnlyBodies : ResetPasswordFind(r, body)
  \/ \E r \in Connections : ResetPasswordSave(r)
  \/ \E r \in Connections : Close(r)
  \/ HalfHourPasses

ResetSpec == Init /\ [][ResetNext]_vars

(***************************************************************************)
(* Properties.                                                             *)
(***************************************************************************)
InvalidItemsError == "Order items are missing or invalid"

\* C1: when order.items is missing, not an array or empty, the call rejects
\* before any I/O and any drawing: at the rejection no file stream exists
\* and neither the header nor the billing block has been drawn.
C1_RejectsBeforeDrawingAndIO ==
  \A p \in Calls :
    (promise[p] = "rejected" /\ failure[p] = InvalidItemsError)
      => /\ stream[p] = "none"
         /\ doc[p].sections \cap {"header", "billTo"} = {}

\* C2: no item row is split across pages: the extent of every row drawn,
\* from its cursor y to y + rowHeight, lies within the page height.
C2_RowWithinPage ==
  \A p \in Calls :
    doc[p].row # NoRow => doc[p].row.y + doc[p].row.height <= pageHeight

\* Every page holding a row holds a header row, the last row drawn is on
\* the current page, and forty rows span at least two pages.
C3_HeaderOnEveryPage ==
  \A p \in Calls :
    /\ doc[p].rowsOnPage > 0 => doc[p].headerOnPage
    /\ doc[p].row # NoRow => doc[p].row.page = doc[p].pages
    /\ idx[p] >= 40 => doc[p].pages >= 2

\* A row whose cursor exceeds pageHeight - 250 starts a new page: the header
\* row is drawn on it and the row is its first, at the top margin.
C3_BreakStep ==
  \A p \in Calls :
    (pc[p] = "rows" /\ idx'[p] = idx[p] + 1 /\ itemsY[p] > 84189 - 25000)
      => /\ doc'[p].pages = doc[p].pages + 1
         /\ doc'[p].headerOnPage
         /\ doc'[p].rowsOnPage = 1
         /\ doc'[p].row.page = doc'[p].pages
         /\ doc'[p].row.y = 10400

\* C3: a row whose cursor exceeds pageHeight - 250 is drawn on a new page
\* whose header row is drawn first; every page holding a row holds a header
\* row; forty rows span at least two pages.
C3_Pagination == []C3_HeaderOnEveryPage /\ [][C3_BreakStep]_vars

\* Forty rows of minimum height: ten on the first page, twenty-one on the
\* second, nine on the third.
C3_Witness ==
  /\ idx[1] = 40
  /\ doc[1].pages = 3
  /\ doc[1].rowsOnPage = 9
  /\ itemsY[1] = 10400 + (9 * 2400)

\* C4: two calls for the same order never resolve with the same reference.
C4_DistinctReferences ==
  \A p, q \in Calls :
    (/\ p # q
     /\ promise[p] = "resolved" /\ promise[q] = "resolved"
     /\ order[p].orderId = order[q].orderId)
      => result[p] # result[q]

\* C5: no two renders have the same file open for writing.
C5_NoSharedFile ==
  \A p, q \in Calls :
    (p # q /\ stream[p] = "open" /\ stream[q] = "open")
      => filename[p] # filename[q]

\* C6: the promise is resolved, with the reference of its own file, only
\* once the document has ended and the stream has emitted 'finish'; a call
\* whose stream emitted 'error' is rejected and has no reference.
C6_ResolvedOnlyAfterFinish ==
  \A p \in Calls :
    /\ promise[p] = "resolved"
         => /\ stream[p] = "finished"
            /\ doc[p].ended
            /\ result[p] = Reference(filename[p])
    /\ promise[p] # "resolved" => result[p] = NoReference
    /\ stream[p] = "errored"
         => promise[p] = "rejected" /\ result[p] = NoReference

C6_Witness ==
  \E p, q \in Calls :
    /\ promise[p] = "resolved" /\ stream[p] = "finished"
    /\ stream[q] = "errored" /\ failure[q] = "StreamError"

\* C7: a render that failed by a thrown exception leaves no file of its
\* own in the directory and no write stream open.
C7_NoPartialState ==
  \A p \in Calls :
    (promise[p] = "rejected" /\ failure[p] # "StreamError")
      => filename[p] \notin files /\ stream[p] # "open"

\* A settled promise keeps its state, its value and its error.
C8_SettledStays ==
  \A p \in Calls :
    promise[p] \in {"resolved", "rejected"}
      => /\ promise'[p] = promise[p]
         /\ result'[p] = result[p]
         /\ failure'[p] = failure[p]

\* C8: every call settles, and settles once: a pending promise is
\* eventually resolved or rejected, and a settled promise never changes.
C8_SettlesOnce ==
  /\ \A p \in Calls :
       (promise[p] = "pending") ~> (promise[p] \in {"resolved", "rejected"})
  /\ [][C8_SettledStays]_vars

C8_Witness ==
  \E p, q \in Calls :
    /\ promise[p] = "resolved"
    /\ promise[q] = "rejected" /\ failure[q] = InvalidItemsError

\* C9: with createdAt missing, or a string that is no date, and no other
\* date field, the date block of a render that raised no error shows
\* today's date.
Unparseable(x) == x.t = "string" /\ ~NewDate(x).valid

C9_DateFallsBackToToday ==
  \A p \in Calls :
    (/\ "header" \in doc[p].sections
     /\ failure[p] = "none"
     /\ order[p].orderDate = Undefined /\ order[p].date = Undefined
     /\ order[p].createdAt.t \in {"undefined", "null"}
          \/ Unparseable(order[p].createdAt))
      => doc[p].dateText = ToLocaleDateString(DateObj(now))

\* C10: every amount rendered is "Rs. " and a decimal number with exactly
\* two fraction digits, and a missing, null or unparseable subtotal or
\* total is rendered as 0.00.
IsAmount(t) ==
  /\ Len(t) >= 8
  /\ SubSeq(t, 1, 4) = <<"R", "s", ".", " ">>
  /\ LET n == SubSeq(t, 5, Len(t))
         m == IF n[1] = "-" THEN Tail(n) ELSE n
     IN /\ Len(m) >= 4
        /\ m[Len(m) - 2] = "."
        /\ \A i \in (1..Len(m)) \ {Len(m) - 2} : IsDigit(m[i])

NotANumber(x) ==
  \/ x.t \in {"undefined", "null"}
  \/ x.t = "string" /\ ParseFloatString(x.s) = NaN

C10_AmountsWellFormed ==
  \A p \in Calls :
    /\ doc[p].row # NoRow
         => IsAmount(doc[p].row.price) /\ IsAmount(doc[p].row.total)
    /\ \A i \in DOMAIN doc[p].totals : IsAmount(doc[p].totals[i].value)
    /\ (doc[p].totals # <<>> /\ NotANumber(order[p].subtotal))
         => doc[p].totals[1].value = <<"R", "s", ".", " ", "0", ".", "0", "0">>

\* C11: the totals block draws Subtotal and Total always, Shipping exactly
\* when shippingCost > 0 and Tax exactly when tax > 0, in that order, each
\* line 20 below the line drawn before it and Total 8 lower still, the
\* first line 20 below the end of the last row.
TotalsLabels(lines) == [i \in DOMAIN lines |-> lines[i].label]

C11_TotalsBlock ==
  \A p \in Calls :
    doc[p].ended =>
      LET lines == doc[p].totals
          n == Len(lines)
          shipping == GreaterThanZero(Money(order[p].shippingCost))
          tax == GreaterThanZero(Money(order[p].tax))
      IN /\ TotalsLabels(lines)
              = <<"Subtotal:">>
                \o (IF shipping THEN <<"Shipping:">> ELSE <<>>)
                \o (IF tax THEN <<"Tax (GST):">> ELSE <<>>)
                \o <<"Total:">>
         /\ lines[1].y = itemsY[p] + 2000
         /\ \A i \in 2..(n - 1) : lines[i].y = lines[i - 1].y + 2000
         /\ lines[n].y = lines[n - 1].y + 2800

\* Tax without shipping: three lines, the Tax line directly under Subtotal.
C11_Witness ==
  /\ doc[1].ended
  /\ TotalsLabels(doc[1].totals) = <<"Subtotal:", "Tax (GST):", "Total:">>
  /\ doc[1].totals[2].y = doc[1].totals[1].y + 2000

\* C12: the cells of the header row are laid out left to right from
\* margin + 10 with the widths 180, 42, 52, 32, 70, 80 and gaps of 8: each
\* cell starts 8 after the end of the cell before it, so no two overlap,
\* and the last cell ends at 546, within pageWidth - margin = 555.28.
C12_ColumnGeometry ==
  \A p \in Calls :
    "tableHeader" \in doc[p].sections =>
      LET c == doc[p].columns
      IN /\ Len(c) = 6
         /\ c[1].x = 4000 + 1000
         /\ [i \in 1..6 |-> c[i].width] = <<18000, 4200, 5200, 3200, 7000, 8000>>
         /\ \A i \in 2..6 : c[i].x = c[i - 1].x + c[i - 1].width + 800
         /\ c[6].x + c[6].width = 54600
         /\ c[6].x + c[6].width <= 59528 - 4000

C12_Witness ==
  /\ "tableHeader" \in doc[1].sections
  /\ doc[1].columns[6].name = "Total"
  /\ doc[1].columns[6].x = 46600

\* C13: the billing box has a fixed height: whichever of the name, address,
\* city/state/zip, mobile and email lines are drawn, the cursor after the
\* billing block is 315, the table header of the first page is at 325 and
\* the first item row at 369.
C13_FixedBillingBox ==
  \A p \in Calls :
    "tableHeader" \in doc[p].sections =>
      /\ BelowBillingBox(doc[p].billingEndY) = 31500
      /\ doc[p].headerY = 32500
      /\ idx[p] = 0 /\ pc[p] = "rows" => itemsY[p] = 36900
      /\ doc[p].row # NoRow /\ doc[p].pages = 1 /\ idx[p] = 1 => doc[p].row.y = 36900

C13_Witness ==
  /\ "tableHeader" \in doc[1].sections
  /\ Len(doc[1].billing) = 5
  /\ doc[1].billingEndY = 29800
  /\ doc[1].pages = 1 /\ idx[1] = 1 /\ doc[1].row # NoRow

\* C14: the first candidate logo path that exists is the one used; when
\* none exists or drawing the image throws, no logo is drawn, the header
\* text and the rest of the document are still drawn, and the call is
\* rejected only for a user that is not an object or for invalid items.
C14_LogoLookupNonFatal ==
  \A p \in Calls :
    pc[p] # "idle" =>
      /\ "header" \in doc[p].sections
      /\ doc[p].logo =
           (IF doc[p].logoSeen = {} \/ doc[p].imageThrew THEN 0
            ELSE CHOOSE i \in doc[p].logoSeen :
                   \A j \in doc[p].logoSeen : i <= j)
      /\ user[p].t = "object" /\ ~ItemsInvalid(order[p]) =>
           /\ failure[p] = "none"
           /\ "tableHeader" \in doc[p].sections
      /\ pc[p] = "returned" /\ failure[p] = "none" => doc[p].ended

C14_Witness ==
  /\ doc[1].ended
  /\ doc[1].logoSeen = {2, 3}
  /\ doc[1].imageThrew
  /\ doc[1].logo = 0
  /\ failure[1] = "none"

\* C18: the 250 units kept free below the last point where a row may start
\* hold the totals block and the footer: once the document is ended, the
\* brand signature and its text lie within the page, for any row height.
C18_FooterWithinPage ==
  \A p \in Calls :
    doc[p].ended =>
      /\ \A i \in 1..Len(doc[p].totals) : doc[p].totals[i].y <= pageHeight
      /\ doc[p].brandY + brandTextHeight <= pageHeight

InvalidOrExpired == "Reset token is invalid or has expired"

C15_ResetStep ==
  /\ \A r \in Connections :
       requests[r].at = "idle" /\ requests'[r].route = "reset-password" =>
         LET token == requests'[r].token
             Valid(u) ==
               /\ token.t = "string"
               /\ accounts[u].passwordResetToken = Hash(token)
               /\ accounts[u].passwordResetExpires.t = "date"
               /\ accounts[u].passwordResetExpires.ms > now
         IN /\ accounts' = accounts
            /\ requests'[r].at = "found" => Valid(requests'[r].user)
            /\ (\A u \in 1..Len(accounts) : ~Valid(u)) =>
                 requests'[r].at = "responded" /\ requests'[r].status = 400
  /\ \A u \in 1..Len(accounts) :
       /\ accounts'[u].password # accounts[u].password =>
            \E r \in Connections :
              /\ requests[r].at = "found" /\ requests[r].user = u
              /\ requests'[r].status = 200
              /\ accounts'[u].password = requests[r].newPassword
       /\ accounts'[u].passwordResetExpires # accounts[u].passwordResetExpires =>
            \/ accounts'[u].passwordResetExpires = Null
            \/ accounts'[u].passwordResetExpires = DateObj(now + 3600000)

\* C15: reset tokens are time-limited: POST /reset-password goes on to change
\* a password only for a user whose stored passwordResetToken is the SHA-256
\* hash of the supplied token and whose passwordResetExpires, set to issue
\* time + 1 hour by POST /forgot-password, is strictly later than the time
\* of the lookup; otherwise it responds 400 and no user row changes.
C15_TimeLimitedReset == [][C15_ResetStep]_vars

C15_Witness ==
  \E r \in Connections :
    /\ requests[r].route = "reset-password"
    /\ requests[r].status = 400
    /\ requests[r].message = InvalidOrExpired
    /\ \E u \in 1..Len(accounts) :
         /\ accounts[u].passwordResetToken = Hash(requests[r].token)
         /\ accounts[u].passwordResetExpires = DateObj(now)
         /\ accounts[u].password = GoodPassword

\* C16: a reset token authorises at most one password change: no two
\* requests carrying the same token are both answered 'Password reset
\* successful'.
C16_TokenUsedOnce ==
  \A r1, r2 \in Connections :
    (/\ r1 # r2
     /\ requests[r1].route = "reset-password" /\ requests[r1].status = 200
     /\ requests[r2].route = "reset-password" /\ requests[r2].status = 200)
    => requests[r1].token # requests[r2].token

C17_RegisterStep ==
  \A r \in Connections :
    (/\ requests[r].at = "idle"
     /\ requests'[r].route = "register"
     /\ requests'[r].status \in {400, 500})
    => accounts' = accounts

\* C17: POST /register is all-or-nothing: a request answered with 400 or 500
\* leaves the users table as it was, also when generateToken throws
\* ConfigurationError.
C17_RegisterAllOrNothing == [][C17_RegisterStep]_vars
====
